---- MODULE Spec2Model ----
(***************************************************************************)
(* A model of the Streamlit front end of the PDF question-answering        *)
(* assistant (src/app.py) together with the pipeline functions it calls.   *)
(*                                                                         *)
(* One Streamlit rerun executes the script top to bottom: a user event     *)
(* (upload, removal, chat input, any other widget) starts it,              *)
(* create_sidebar runs, then create_chat_interface runs.  st.session_state *)
(* survives between reruns.                                                *)
(*                                                                         *)
(* process_pdf_document, retrieve_relevant_chunks, the response generator  *)
(* and highlight_matching_chunks live in the module `tools`, which is not  *)
(* among the sources; they are modelled from their contracts in spec.md    *)
(* sections 4.2 - 4.6.                                                     *)
(***************************************************************************)
EXTENDS Integers, Sequences, FiniteSets, TLC

VARIABLES
    pc,                 \* position of the script: "idle", "sidebar", "chat"
    uploaded_file,      \* value of the st.file_uploader widget (NoFile or a file)
    user_query,         \* value st.chat_input yields in this rerun (None or a query)
    messages,           \* st.session_state.messages
    document_loaded,    \* st.session_state.document_loaded
    document_name,      \* st.session_state.document_name
    highlighted_chunks, \* st.session_state.highlighted_chunks
    index,              \* the vector index: the set of stored chunk records
    disk,               \* local storage: file name -> content written (or NoContent)
    sidebar_run,        \* what create_sidebar did in the current/last rerun
    last_ingest,        \* the most recent call of process_pdf_document; kept: its
                        \* file has been in the uploader ever since
    chat_run,           \* what create_chat_interface did in the current/last rerun
    tokens,             \* chunker: the page's token sequence
    chunk_size,         \* chunker: chunk_size
    chunk_overlap,      \* chunker: chunk_overlap
    page_chunks,        \* chunker: the chunks emitted for the page
    cpc                 \* chunker: "off", "start", "chunked", "ConfigError"

session == <<messages, document_loaded, document_name, highlighted_chunks>>
ui_vars == <<pc, uploaded_file, user_query, messages, document_loaded, document_name,
             highlighted_chunks, index, disk, sidebar_run, last_ingest, chat_run>>
chunk_vars == <<tokens, chunk_size, chunk_overlap, page_chunks, cpc>>
vars == <<pc, uploaded_file, user_query, messages, document_loaded, document_name,
          highlighted_chunks, index, disk, sidebar_run, last_ingest, chat_run,
          tokens, chunk_size, chunk_overlap, page_chunks, cpc>>

None == "None"

\* No file in the uploader (uploaded_file is None); nothing written on disk.
NoFile == [name |-> None, content |-> 0, size |-> 0]
NoContent == -1

Min(a, b) == IF a < b THEN a ELSE b

(***************************************************************************)
(* Bounds and inputs                                                       *)
(***************************************************************************)
FileSizeLimitMB == 1      \* the configured file_size_limit_mb
TopK == 2                 \* the configured top_k
MaxMessages == 3          \* longest conversation explored
MaxTokens == 8            \* longest page, in tokens
MaxChunkSize == 6         \* largest chunk_size (and chunk_overlap) tried

BytesPerMB == 1024 * 1024

Names == {"a.pdf", "b.pdf"}
EmptyContent == 0
Contents == {1, 2}
Queries == {"q1"}

\* The chunk texts of a content, in reading order (one chunk per page here).
\* Content 1 has two pages with the same text.
ChunkTexts(c) ==
    CASE c = 1 -> <<1, 1>>
      [] c = 2 -> <<2, 3>>
      [] OTHER -> <<>>

\* Uploadable files: a zero-byte file, a file within the limit (exactly at
\* it) and a file one byte over the limit.
FileSizes == {0, FileSizeLimitMB * BytesPerMB, FileSizeLimitMB * BytesPerMB + 1}
Files ==
    { f \in [name : Names, content : Contents \cup {EmptyContent}, size : FileSizes] :
        (f.size = 0) <=> (f.content = EmptyContent) }

\* An answer of the language model, abstracted to the set of chunk texts it
\* has textual overlap with.
Responses == { {}, {1, 2} }

NoSidebarRun == [uploaded |-> FALSE, over_limit |-> FALSE, was_loaded |-> FALSE,
                 invoked |-> FALSE, result |-> "none"]
NoChatRun == [query |-> None, loaded |-> FALSE, warned |-> FALSE, calls |-> <<>>,
              raised |-> "none"]

(***************************************************************************)
(* init_session_state                                                      *)
(***************************************************************************)
init_session_state ==
    /\ messages = <<>>
    /\ document_loaded = FALSE
    /\ document_name = None
    /\ highlighted_chunks = <<>>

(***************************************************************************)
(* tools.process_pdf_document (spec.md 4.1 - 4.3)                          *)
(***************************************************************************)
\* The records upserted for a document: id, text and source of every chunk.
DocChunks(f) ==
    { [id |-> <<f.name, i>>, text |-> ChunkTexts(f.content)[i], source |-> <<f.name, i>>] :
        i \in 1..Len(ChunkTexts(f.content)) }

\* Re-ingesting a name replaces the records of that name.
Upsert(idx, f) == { r \in idx : r.source[1] # f.name } \cup DocChunks(f)

\* The possible returns of process_pdf_document(f, ...) on index idx:
\* (success, chunk_count) and the index afterwards.  A file with no
\* extractable text fails (ParseError); any stage may fail (embedder or
\* index unreachable); a failure leaves the index as it was.  "aborted" is a
\* call that does not return.
process_pdf_document(f, idx) ==
    {[result |-> "fail", chunk_count |-> 0, index |-> idx],
     [result |-> "aborted", chunk_count |-> 0, index |-> idx]}
    \cup (IF ChunkTexts(f.content) = <<>> THEN {}
          ELSE {[result |-> "ok", chunk_count |-> Len(ChunkTexts(f.content)),
                 index |-> Upsert(idx, f)]})

(***************************************************************************)
(* create_sidebar                                                          *)
(***************************************************************************)
\* file_size_mb > file_size_limit_mb, with file_size_mb = size / (1024 * 1024)
ExceedsLimit(f) == f.size > FileSizeLimitMB * BytesPerMB

\* Lines 37-44: the session's flag and name after the size and name checks.
CheckUpload(loaded, name, f) ==
    IF ExceedsLimit(f)
      THEN [document_loaded |-> FALSE, document_name |-> None]
      ELSE IF name # f.name
        THEN [document_loaded |-> FALSE, document_name |-> f.name]
        ELSE [document_loaded |-> loaded, document_name |-> name]

\* Line 46: the document is processed when the flag is not set.
NeedsProcessing(loaded) == ~loaded

\* Lines 51-52: the flag after process_pdf_document returned.
AfterProcessingAlways(loaded, result) == TRUE

AfterProcessing(loaded, result) == IF result = "ok" THEN TRUE ELSE loaded

\* Lines 55-56: the uploaded bytes are written under the file's name.
SaveUploadSkipped(d, f) == d

SaveUpload(d, f) == [d EXCEPT ![f.name] = f.content]

create_sidebar ==
    /\ pc = "sidebar"
    /\ UNCHANGED <<uploaded_file, messages, highlighted_chunks, chat_run>>
    /\ IF uploaded_file = NoFile
         THEN /\ sidebar_run' = NoSidebarRun
              /\ pc' = "chat"
              /\ UNCHANGED <<user_query, document_loaded, document_name, index, disk,
                             last_ingest>>
         ELSE LET f == uploaded_file
                  chk == CheckUpload(document_loaded, document_name, f)
              IN /\ document_name' = chk.document_name
                 /\ IF NeedsProcessing(chk.document_loaded)
                      THEN \E out \in process_pdf_document(f, index) :
                             /\ document_loaded' = AfterProcessing(chk.document_loaded, out.result)
                             /\ index' = out.index
                             /\ disk' = IF out.result = "ok" THEN SaveUpload(disk, f) ELSE disk
                             /\ last_ingest' = [result |-> out.result, name |-> f.name,
                                                kept |-> TRUE]
                             /\ sidebar_run' = [uploaded |-> TRUE, over_limit |-> ExceedsLimit(f),
                                                was_loaded |-> document_loaded,
                                                invoked |-> TRUE, result |-> out.result]
                             \* a call that does not return ends the script run
                             /\ pc' = IF out.result = "aborted" THEN "idle" ELSE "chat"
                             /\ user_query' = IF out.result = "aborted" THEN None ELSE user_query
                      ELSE /\ document_loaded' = chk.document_loaded
                           /\ sidebar_run' = [uploaded |-> TRUE, over_limit |-> ExceedsLimit(f),
                                              was_loaded |-> document_loaded,
                                              invoked |-> FALSE, result |-> "none"]
                           /\ pc' = "chat"
                           /\ UNCHANGED <<user_query, index, disk, last_ingest>>
    /\ UNCHANGED chunk_vars

(***************************************************************************)
(* tools.retrieve_relevant_chunks (spec.md 4.4)                            *)
(***************************************************************************)
\* Similarity of the query's embedding and the embedding of a chunk text.
\* The embedder is deterministic: equal texts have equal scores.
Score(q, t) == IF q = "q1" THEN t ELSE 4 - t

Result(q, r) == [text |-> r.text, source |-> r.source, score |-> Score(q, r.text)]

\* The rankings the index may answer with: the top_k nearest records,
\* nearest first; records of equal score in either order.
RankingsUnordered(q, idx) ==
    LET k == Min(TopK, Cardinality(idx))
    IN { s \in [1..k -> idx] : \A i, j \in 1..k : i < j => s[i] # s[j] }

Rankings(q, idx) ==
    LET k == Min(TopK, Cardinality(idx))
    IN { s \in [1..k -> idx] :
           /\ \A i, j \in 1..k : i < j =>
                 /\ s[i] # s[j]
                 /\ Score(q, s[i].text) >= Score(q, s[j].text)
           /\ \A r \in idx : (\A i \in 1..k : s[i] # r) =>
                 \A i \in 1..k : Score(q, r.text) <= Score(q, s[i].text) }

\* The outcomes of retrieve_relevant_chunks(q, idx, ...): a RetrievalResult,
\* or RetrievalError (always when the index is empty, possibly otherwise:
\* the index is unreachable).
retrieve_relevant_chunks(q, idx) ==
    {[error |-> "RetrievalError", value |-> <<>>]}
    \cup { [error |-> "none", value |-> [i \in DOMAIN s |-> Result(q, s[i])]] :
             s \in IF idx = {} THEN {} ELSE Rankings(q, idx) }

(***************************************************************************)
(* generate_response_func (spec.md 4.5)                                    *)
(***************************************************************************)
\* The outcomes of generate_response_func(q, chunks, ...): an answer, or
\* GenerationError when the model call fails.
generate_response_func(q, chunks) ==
    {[error |-> "GenerationError", value |-> {}]}
    \cup { [error |-> "none", value |-> a] : a \in Responses }

(***************************************************************************)
(* tools.highlight_matching_chunks (spec.md 4.6)                           *)
(***************************************************************************)
\* The chunk has textual overlap with the answer.
Matches(response, c) == c.text \in response

\* The {source, text} pair shown for a chunk.
SourceText(c) == [source |-> c.source, text |-> c.text]

highlight_matching_chunks(response, chunks) ==
    LET keep(c) == Matches(response, c)
        kept == SelectSeq(chunks, keep)
    IN [i \in DOMAIN kept |-> SourceText(kept[i])]

(***************************************************************************)
(* create_chat_interface                                                   *)
(***************************************************************************)
\* Line 86: the query is processed when the document-loaded flag is set.
QueryAllowedAlways(loaded) == TRUE

QueryAllowed(loaded) == loaded

\* Lines 86-88: a query without a loaded document only shows the warning.
RejectedLogged(msgs, q) == Append(msgs, [role |-> "user", content |-> q])

Rejected(msgs, q) == msgs

\* Line 90
UserMessage(q) == [role |-> "user", content |-> q]

\* Lines 114-118
AssistantMessage(response, highlighted) ==
    [role |-> "assistant", content |-> response, highlighted_chunks |-> highlighted]

\* Lines 90 and 114: st.session_state.messages.append(m)
AddMessageReset(msgs, m) == <<m>>

AddMessage(msgs, m) == Append(msgs, m)

\* Lines 97-101: neither call is guarded, so an error of the retriever or
\* of the generator ends create_chat_interface at that call.
PropagatesNever(error) == FALSE

Propagates(error) == error # "none"

\* Line 101: the arguments the generator is called with.
GenerateArgsNoChunks(q, chunks) == <<q, <<>>>>

GenerateArgs(q, chunks) == <<q, chunks>>

\* Line 105: highlighted_chunks = highlight_matching_chunks(response, chunks)
HighlightedAll(response, chunks) == chunks

Highlighted(response, chunks) == highlight_matching_chunks(response, chunks)

\* One entry of the run's call log: the function, its arguments, what it
\* returned and the error it raised.
Call(fn, args, out) == [fn |-> fn, args |-> args, returned |-> out.value, error |-> out.error]

create_chat_interface ==
    /\ pc = "chat"
    /\ pc' = "idle"
    /\ user_query' = None
    /\ UNCHANGED <<uploaded_file, document_loaded, document_name, highlighted_chunks,
                   index, disk, sidebar_run, last_ingest>>
    /\ UNCHANGED chunk_vars
    /\ IF user_query = None
         THEN /\ messages' = messages
              /\ chat_run' = NoChatRun
         ELSE IF ~QueryAllowed(document_loaded)
           THEN \* the warning is shown, nothing else happens
                /\ messages' = Rejected(messages, user_query)
                /\ chat_run' = [NoChatRun EXCEPT !.query = user_query,
                                                 !.loaded = document_loaded,
                                                 !.warned = TRUE]
           ELSE LET q == user_query
                    m1 == AddMessage(messages, UserMessage(q))
                    run == [NoChatRun EXCEPT !.query = q, !.loaded = document_loaded]
                IN \E rt \in retrieve_relevant_chunks(q, index) :
                     LET chunks == rt.value
                         c1 == Call("retrieve_relevant_chunks", <<q>>, rt)
                         ga == GenerateArgs(q, chunks)
                     IN IF Propagates(rt.error)
                          THEN /\ messages' = m1
                               /\ chat_run' = [run EXCEPT !.calls = <<c1>>,
                                                          !.raised = rt.error]
                          ELSE \E g \in generate_response_func(ga[1], ga[2]) :
                                 LET response == g.value
                                     c2 == Call("generate_response_func", ga, g)
                                     hl == Highlighted(response, chunks)
                                     c3 == Call("highlight_matching_chunks", <<response, chunks>>,
                                                [value |-> hl, error |-> "none"])
                                     msg == AssistantMessage(response, hl)
                                     c4 == Call("messages.append", <<msg>>,
                                                [value |-> None, error |-> "none"])
                                 IN IF Propagates(g.error)
                                      THEN /\ messages' = m1
                                           /\ chat_run' = [run EXCEPT !.calls = <<c1, c2>>,
                                                                      !.raised = g.error]
                                      ELSE /\ messages' = AddMessage(m1, msg)
                                           /\ chat_run' = [run EXCEPT !.calls = <<c1, c2, c3, c4>>]

(***************************************************************************)
(* The user's events, each starting a rerun of the script                  *)
(***************************************************************************)
\* st.file_uploader: the user puts a file into the uploader.
UploadFile ==
    /\ pc = "idle"
    /\ \E f \in Files : f # uploaded_file /\ uploaded_file' = f
    /\ user_query' = None
    /\ pc' = "sidebar"
    /\ sidebar_run' = NoSidebarRun
    /\ chat_run' = NoChatRun
    /\ last_ingest' = [last_ingest EXCEPT !.kept = FALSE]
    /\ UNCHANGED <<session, index, disk>>
    /\ UNCHANGED chunk_vars

\* st.file_uploader: the user removes the file.
RemoveFile ==
    /\ pc = "idle"
    /\ uploaded_file # NoFile
    /\ uploaded_file' = NoFile
    /\ user_query' = None
    /\ pc' = "sidebar"
    /\ sidebar_run' = NoSidebarRun
    /\ chat_run' = NoChatRun
    /\ last_ingest' = [last_ingest EXCEPT !.kept = FALSE]
    /\ UNCHANGED <<session, index, disk>>
    /\ UNCHANGED chunk_vars

\* st.chat_input: the user submits a question.
SubmitQuery ==
    /\ pc = "idle"
    /\ Len(messages) + 2 <= MaxMessages
    /\ \E q \in Queries : user_query' = q
    /\ pc' = "sidebar"
    /\ sidebar_run' = NoSidebarRun
    /\ chat_run' = NoChatRun
    /\ UNCHANGED <<uploaded_file, session, index, disk, last_ingest>>
    /\ UNCHANGED chunk_vars

InitUI ==
    /\ pc = "idle"
    /\ uploaded_file = NoFile
    /\ user_query = None
    /\ init_session_state
    /\ index = {}
    /\ disk = [n \in Names |-> NoContent]
    /\ sidebar_run = NoSidebarRun
    /\ last_ingest = [result |-> "none", name |-> None, kept |-> FALSE]
    /\ chat_run = NoChatRun

Init ==
    /\ InitUI
    /\ tokens = <<>>
    /\ chunk_size = 1
    /\ chunk_overlap = 0
    /\ page_chunks = <<>>
    /\ cpc = "off"

Next ==
    \/ UploadFile
    \/ RemoveFile
    \/ SubmitQuery
    \/ create_sidebar
    \/ create_chat_interface

Spec == Init /\ [][Next]_vars

(***************************************************************************)
(* The chunker (spec.md 4.2), applied to the tokens of one page            *)
(***************************************************************************)
TokenIds == {1, 2}
TokenSeqs == UNION { [1..n -> TokenIds] : n \in 0..MaxTokens }

\* A chunk is emitted at every multiple of step = chunk_size - chunk_overlap
\* below the page's length and spans chunk_size tokens, fewer at the end of
\* the page.  offset is the position of the chunk's first token.
RECURSIVE ChunkFrom(_, _, _, _)
ChunkFrom(toks, i, size, step) ==
    IF i >= Len(toks)
      THEN <<>>
      ELSE <<[offset |-> i, tokens |-> SubSeq(toks, i + 1, Min(i + size, Len(toks)))]>>
           \o ChunkFrom(toks, i + step, size, step)

ChunkTokensNoOverlap(toks, size, overlap) == ChunkFrom(toks, 0, size, size)

ChunkTokens(toks, size, overlap) == ChunkFrom(toks, 0, size, size - overlap)

\* Chunk the page; chunk_overlap >= chunk_size is a ConfigError.
chunk_page ==
    /\ cpc = "start"
    /\ IF chunk_overlap >= chunk_size
         THEN /\ cpc' = "ConfigError"
              /\ page_chunks' = <<>>
         ELSE /\ cpc' = "chunked"
              /\ page_chunks' = ChunkTokens(tokens, chunk_size, chunk_overlap)
    /\ UNCHANGED <<tokens, chunk_size, chunk_overlap>>
    /\ UNCHANGED ui_vars

InitChunk ==
    /\ InitUI
    /\ tokens \in TokenSeqs
    /\ chunk_size \in 1..MaxChunkSize
    /\ chunk_overlap \in 0..MaxChunkSize
    /\ page_chunks = <<>>
    /\ cpc = "start"

NextChunk == chunk_page

SpecChunk == InitChunk /\ [][NextChunk]_vars

(***************************************************************************)
(* Properties                                                              *)
(***************************************************************************)
\* The call log entries of the rerun's query, by position.
Calls == chat_run.calls
Retrieved == IF Len(Calls) >= 1 THEN Calls[1].returned ELSE <<>>

\* a is b with some elements left out, the others in b's order.
IsSubSeq(a, b) ==
    \E f \in [1..Len(a) -> 1..Len(b)] :
        /\ \A i, j \in 1..Len(a) : i < j => f[i] < f[j]
        /\ \A i \in 1..Len(a) : a[i] = b[f[i]]

IsPrefix(a, b) == Len(a) <= Len(b) /\ \A i \in 1..Len(a) : a[i] = b[i]

\* C1: once create_sidebar has run on an uploaded file larger than
\* file_size_limit_mb, process_pdf_document was not invoked for it and
\* document_loaded is false.
C1_SizeLimitEnforced ==
    (pc # "sidebar" /\ sidebar_run.over_limit) =>
        (~sidebar_run.invoked /\ ~document_loaded)

\* C2: the retriever, the generator and the matcher are called for a
\* submitted query only if document_loaded was true when
\* create_chat_interface received the query.
C2_QueryNeedsLoadedFlag ==
    (Calls # <<>> \/ (pc = "idle" /\ chat_run.query # None /\ ~chat_run.warned))
        => chat_run.loaded

C2_Witness ==
    /\ Len(Calls) = 4
    /\ chat_run.loaded
    /\ Calls[1].fn = "retrieve_relevant_chunks"

\* C3: after process_pdf_document failed (or did not return) document_loaded
\* is false, and it stays false until a later call succeeds, also when
\* another document was loaded before the upload.
C3_FailedIngestionNotLoaded ==
    last_ingest.result \in {"fail", "aborted"} => ~document_loaded

C3_Witness ==
    /\ pc = "chat"
    /\ sidebar_run.was_loaded
    /\ sidebar_run.result = "fail"
    /\ last_ingest.result = "fail"
    /\ \E r \in index : r.source[1] # uploaded_file.name

\* C4: with a readable file (N, C2) in the uploader, a query retrieves no
\* chunk of document N that is not a chunk of C2.
C4_NoStaleChunks ==
    (pc = "idle" /\ uploaded_file.content \in Contents) =>
        \A i \in DOMAIN Retrieved :
            Retrieved[i].source[1] = uploaded_file.name =>
                \E j \in DOMAIN ChunkTexts(uploaded_file.content) :
                    /\ Retrieved[i].source[2] = j
                    /\ Retrieved[i].text = ChunkTexts(uploaded_file.content)[j]

C6_AppendOnly == [][IsPrefix(messages, messages')]_vars

C6_Witness ==
    /\ Len(messages) >= 2
    /\ pc = "chat"
    /\ sidebar_run.over_limit
    /\ sidebar_run.result = "fail"

\* C7: when the retriever or the generator fails for an accepted query, the
\* error leaves create_chat_interface (the UI layer shows it) and the
\* conversation ends with the query's user message: no assistant message is
\* appended for it.
C7_ErrorsSurface ==
    (\E i \in DOMAIN Calls : Calls[i].error # "none") =>
        /\ chat_run.raised \in {"RetrievalError", "GenerationError"}
        /\ chat_run.raised = Calls[Len(Calls)].error
        /\ \A i \in DOMAIN Calls : Calls[i].fn # "messages.append"
        /\ messages # <<>>
        /\ messages[Len(messages)] = UserMessage(chat_run.query)

C7_Witness ==
    /\ Len(Calls) = 2
    /\ chat_run.raised = "GenerationError"
    /\ Len(messages) = 2

\* C8 as stated: at most top_k results, each score strictly greater than
\* the next.
C8_StrictlyDescending ==
    /\ Len(Retrieved) <= TopK
    /\ \A i \in 1..(Len(Retrieved) - 1) : Retrieved[i].score > Retrieved[i + 1].score

\* C8: the retriever returns min(top_k, size of the index) results, no
\* score smaller than the next one (equal scores are possible: chunks of
\* equal text).
C8_Descending ==
    (Len(Calls) >= 1 /\ Calls[1].error = "none") =>
        /\ Len(Retrieved) <= TopK
        /\ Len(Retrieved) = Min(TopK, Cardinality(index))
        /\ \A i \in 1..(Len(Retrieved) - 1) : Retrieved[i].score >= Retrieved[i + 1].score

C8_Witness ==
    /\ Len(Calls) >= 1
    /\ Calls[1].error = "none"
    /\ Cardinality(index) > TopK
    /\ Len(Retrieved) = TopK
    /\ Retrieved[1].score > Retrieved[2].score

\* C9: the highlighted chunks of the assistant message are {source, text}
\* pairs of retrieved chunks of the same query, in retrieval order; when no
\* retrieved chunk overlaps the answer the list is empty, and the turn
\* completes.
C9_HighlightedSubset ==
    Len(Calls) >= 3 =>
        LET msg == messages[Len(messages)]
            shown == [i \in DOMAIN Retrieved |-> SourceText(Retrieved[i])]
        IN /\ Len(Calls) = 4
           /\ chat_run.raised = "none"
           /\ msg.role = "assistant"
           /\ IsSubSeq(msg.highlighted_chunks, shown)
           /\ (\A i \in DOMAIN Retrieved : ~Matches(msg.content, Retrieved[i]))
                 => msg.highlighted_chunks = <<>>

C9_Witness ==
    /\ Len(Calls) = 4
    /\ Len(Retrieved) = 2
    /\ messages[Len(messages)].highlighted_chunks = <<SourceText(Retrieved[2])>>

\* The page's chunks put together again: the first chunk whole, of every
\* later chunk the tokens after those it shares with its predecessor.
RECURSIVE Rejoin(_, _, _)
Rejoin(chs, k, overlap) ==
    IF k > Len(chs)
      THEN <<>>
      ELSE LET t == chs[k].tokens
               shared == IF k = 1 THEN 0 ELSE Min(overlap, Len(t))
           IN SubSeq(t, shared + 1, Len(t)) \o Rejoin(chs, k + 1, overlap)

\* The chunks that hold the token at position p (counted from 0).
Holding(chs, p) ==
    { k \in DOMAIN chs : chs[k].offset <= p /\ p < chs[k].offset + Len(chs[k].tokens) }

\* The positions a chunk shares with its predecessor.
Overlapped(chs, overlap) ==
    { p \in 0..(Len(tokens) - 1) :
        \E k \in DOMAIN chs :
            /\ k > 1
            /\ chs[k].offset <= p
            /\ p < chs[k].offset + Min(overlap, Len(chs[k].tokens)) }

\* C10 as stated: the rejoined chunks are the page's tokens, and every
\* overlapped token is in exactly two chunks.
C10_RoundTripExactlyTwo ==
    cpc = "chunked" =>
        /\ Rejoin(page_chunks, 1, chunk_overlap) = tokens
        /\ \A p \in Overlapped(page_chunks, chunk_overlap) :
              Cardinality(Holding(page_chunks, p)) = 2

\* C10: the rejoined chunks are the page's tokens; every overlapped token is
\* in at least two chunks, and in exactly two when
\* 2 * chunk_overlap <= chunk_size.
C10_RoundTrip ==
    cpc = "chunked" =>
        /\ Rejoin(page_chunks, 1, chunk_overlap) = tokens
        /\ \A p \in Overlapped(page_chunks, chunk_overlap) :
              /\ Cardinality(Holding(page_chunks, p)) >= 2
              /\ 2 * chunk_overlap <= chunk_size =>
                    Cardinality(Holding(page_chunks, p)) = 2
        /\ \A p \in 0..(Len(tokens) - 1) : Holding(page_chunks, p) # {}

C10_Witness ==
    /\ cpc = "chunked"
    /\ Len(page_chunks) >= 3
    /\ chunk_overlap >= 1
    /\ 2 * chunk_overlap <= chunk_size
    /\ Overlapped(page_chunks, chunk_overlap) # {}
    /\ \E i, j \in DOMAIN tokens : tokens[i] # tokens[j]

\* The first n and the last n elements of s (all of s when it is shorter).
FirstN(s, n) == SubSeq(s, 1, Min(n, Len(s)))
LastN(s, n) == SubSeq(s, Len(s) - Min(n, Len(s)) + 1, Len(s))

\* Chunk k starts at (k - 1) * (chunk_size - chunk_overlap), holds the page's
\* tokens from there on and at most chunk_size of them; 8 tokens with
\* chunk_size 6 and chunk_overlap 2 make 2 chunks, no tokens make no chunk.
ChunkShape ==
    /\ \A k \in DOMAIN page_chunks :
          /\ page_chunks[k].offset = (k - 1) * (chunk_size - chunk_overlap)
          /\ Len(page_chunks[k].tokens) <= chunk_size
          /\ Len(page_chunks[k].tokens) >= 1
          /\ page_chunks[k].tokens =
                SubSeq(tokens, page_chunks[k].offset + 1,
                       page_chunks[k].offset + Len(page_chunks[k].tokens))
    /\ (Len(tokens) = 8 /\ chunk_size = 6 /\ chunk_overlap = 2) => Len(page_chunks) = 2
    /\ tokens = <<>> => page_chunks = <<>>

\* C11 as stated: the shape above, and of every two consecutive chunks the
\* later one's first chunk_overlap tokens are the earlier one's last
\* chunk_overlap tokens.
C11_FullOverlapEveryPair ==
    cpc = "chunked" =>
        /\ ChunkShape
        /\ \A k \in DOMAIN page_chunks : k > 1 =>
              FirstN(page_chunks[k].tokens, chunk_overlap)
                 = LastN(page_chunks[k - 1].tokens, chunk_overlap)

\* C11: the shape above, and of every two consecutive chunks the later
\* one's first m tokens are the earlier one's last m tokens, m being
\* chunk_overlap, or the later chunk's length when that chunk is shorter
\* than chunk_overlap, which happens only to a chunk that ends the page.
C11_ChunkLayout ==
    cpc = "chunked" =>
        /\ ChunkShape
        /\ \A k \in DOMAIN page_chunks : k > 1 =>
              LET m == Min(chunk_overlap, Len(page_chunks[k].tokens))
              IN /\ FirstN(page_chunks[k].tokens, m) = LastN(page_chunks[k - 1].tokens, m)
                 /\ (m < chunk_overlap =>
                       page_chunks[k].offset + Len(page_chunks[k].tokens) = Len(tokens))

C11_Witness ==
    /\ cpc = "chunked"
    /\ Len(tokens) = 8
    /\ chunk_size = 6
    /\ chunk_overlap = 2
    /\ Len(page_chunks) = 2
    /\ FirstN(page_chunks[2].tokens, 2) = <<1, 2>>
    /\ LastN(page_chunks[1].tokens, 2) = <<1, 2>>

\* A step in which create_sidebar called process_pdf_document.
IngestStep == pc = "sidebar" /\ sidebar_run'.invoked

\* C12 as stated: a successful ingestion writes the file's bytes under its
\* name, a failed one writes nothing, and bytes once stored under a name
\* never change (looked at for the steps on a file within the size limit
\* that start with a named document or none loaded).
C12_StoredBytesNeverChange ==
    [][ExceedsLimit(uploaded_file) \/ (document_loaded /\ document_name = None) \/
       /\ (IngestStep /\ sidebar_run'.result = "ok") =>
              disk'[uploaded_file.name] = uploaded_file.content
       /\ (IngestStep /\ sidebar_run'.result # "ok") => disk' = disk
       /\ \A n \in Names : disk[n] # NoContent => disk'[n] = disk[n]]_vars

\* C12: a successful ingestion writes the file's bytes under its name, a
\* failed one writes nothing, and the bytes stored under a name change only
\* by a later successful ingestion of a file of that name, to that file's
\* bytes.
C12_Persisted ==
    [][/\ (IngestStep /\ sidebar_run'.result = "ok") =>
              disk'[uploaded_file.name] = uploaded_file.content
       /\ (IngestStep /\ sidebar_run'.result # "ok") => disk' = disk
       /\ \A n \in Names : disk'[n] # disk[n] =>
              /\ IngestStep
              /\ sidebar_run'.result = "ok"
              /\ n = uploaded_file.name
              /\ disk'[n] = uploaded_file.content]_vars

C12_Witness ==
    /\ pc = "chat"
    /\ sidebar_run.result = "ok"
    /\ disk[uploaded_file.name] = uploaded_file.content
    /\ \E n \in Names : n # uploaded_file.name /\ disk[n] # NoContent

\* C13: a query received while document_loaded is false leaves messages,
\* document_loaded, document_name and highlighted_chunks as they were; only
\* the warning is shown.
C13_RejectedQueryNoEffect ==
    [][(pc = "chat" /\ user_query # None /\ ~document_loaded) =>
          /\ messages' = messages
          /\ document_loaded' = document_loaded
          /\ document_name' = document_name
          /\ highlighted_chunks' = highlighted_chunks
          /\ chat_run'.warned
          /\ chat_run'.calls = <<>>]_vars

C13_Witness ==
    /\ pc = "idle"
    /\ chat_run.warned
    /\ chat_run.query # None
    /\ ~document_loaded
    /\ messages # <<>>
    /\ document_name # None

\* C14: at the end of a rerun the conversation is a sequence of (user,
\* assistant) pairs, each assistant message with a highlighted_chunks list;
\* it never ends with a user message.
C14_UserAssistantPairs ==
    pc = "idle" =>
        /\ Len(messages) % 2 = 0
        /\ \A i \in DOMAIN messages :
              IF i % 2 = 1
                THEN messages[i].role = "user"
                ELSE /\ messages[i].role = "assistant"
                     /\ "highlighted_chunks" \in DOMAIN messages[i]

\* C15: document_loaded implies that document_name is a name, the name of
\* the file of the most recent successful call of process_pdf_document.
C15_LoadedNameIsIngested ==
    document_loaded =>
        /\ document_name # None
        /\ last_ingest.result = "ok"
        /\ document_name = last_ingest.name

\* C16: when process_pdf_document has succeeded for the uploaded file and
\* the file has stayed in the uploader, a rerun of create_sidebar does not
\* call it again.
C16_IngestedOnce ==
    [][(pc = "sidebar" /\ last_ingest.result = "ok" /\ last_ingest.kept)
          => ~sidebar_run'.invoked]_vars

\* C17: at the end of a rerun document_loaded is true only with a file in
\* the uploader, and a query received with no file in the uploader is
\* answered with the warning only.
C17_LoadedOnlyWhileUploaded ==
    pc = "idle" =>
        /\ document_loaded => uploaded_file # NoFile
        /\ (uploaded_file = NoFile /\ chat_run.query # None)
              => (chat_run.warned /\ Calls = <<>>)

====
